---- MODULE Spec2Model ----
(***************************************************************************)
(* Model of the reporter's data-access layer (modules/database/            *)
(* sql_connection.py: class SQLConnection) and of the pipeline that uses   *)
(* it (reporter.py: fetch_data, main).                                     *)
(*                                                                         *)
(* The pyodbc driver is the environment.  A driver session is a number     *)
(* 1..MaxSessions; the one cursor connect() creates on session s is named  *)
(* s as well.  Every driver call has the outcomes the driver can produce:  *)
(* the record o of an operation carries the outcome of each call it may    *)
(* make, and a call on a session that is dead or closed always fails.      *)
(***************************************************************************)
EXTENDS Integers, Sequences, FiniteSets, TLC

\* ------------------------------------------------------------- bounds
MaxSessions == 2
MaxRows == 2

\* ------------------------------------------------------------- values
None == 0

NoneStr == "<None>"

\* Python truthiness of an optional string: None and "" are falsy.
Truthy(s) == s # NoneStr /\ s # ""

\* Windows authentication comes without credentials; SQL authentication with
\* any of them present or not.
ConnectionConfigs ==
    {c \in [username : {NoneStr, "reporter"}, password : {"", "secret"},
            trusted_connection : BOOLEAN] :
        c.trusted_connection => c.username = NoneStr /\ c.password = ""}

\* The outcomes of the driver calls one operation may make.
DriverOutcomes ==
    [connectOk : BOOLEAN, cursorOk : BOOLEAN, execOk : BOOLEAN,
     fetchOk : BOOLEAN, commit1Ok : BOOLEAN, commit2Ok : BOOLEAN,
     rollbackOk : BOOLEAN]

Call(name, ok) == <<name, ok>>

Called(calls, name) == \E i \in 1..Len(calls) : calls[i][1] = name

CalledOk(calls, name) == \E i \in 1..Len(calls) : calls[i] = <<name, TRUE>>

\* ------------------------------------------------------------- statements
\* A driver row of n columns; the values differ by row and by column.
Row(v, n) == [i \in 1..n |-> 10 * v + i]

\* The results a statement may have: k <= MaxRows different rows, in any order.
RowKeySeqs ==
    {keys \in UNION {[1..k -> 1..k] : k \in 0..MaxRows} :
        \A i, j \in 1..Len(keys) : i # j => keys[i] # keys[j]}

RowsOf(keys, n) == [i \in 1..Len(keys) |-> Row(keys[i], n)]

ReportColumns == <<"id", "date", "emp_id", "name", "lastname", "terminal", "block">>

SelectStatement(columns, keys) ==
    [hasDesc |-> TRUE, columns |-> columns,
     rows |-> RowsOf(keys, Len(columns)), rowcount |-> -1]

DmlStatement(k) ==
    [hasDesc |-> FALSE, columns |-> <<>>, rows |-> <<>>, rowcount |-> k]

NoStatement == DmlStatement(0)

\* The report query, with every result the database may hold for it.
get_ops_between_dates == {SelectStatement(ReportColumns, keys) : keys \in RowKeySeqs}

ColumnLists == {<<"id", "date">>, <<"id", "id">>}

Statements ==
    {SelectStatement(c, keys) : c \in ColumnLists, keys \in RowKeySeqs}
        \cup {DmlStatement(k) : k \in 0..MaxRows}

\* One statement of each shape, for the runs that do not read the rows.
SomeStatements ==
    {SelectStatement(<<"id", "date">>, [i \in 1..MaxRows |-> i]), DmlStatement(MaxRows)}

\* ------------------------------------------------------------- manager
\* conn, cursor: the manager's fields.  opened: driver sessions opened and not
\* closed; alive: those the database still answers on; curs: open cursors;
\* n: sessions opened so far.
NewManager ==
    [conn |-> None, cursor |-> None, opened |-> {}, alive |-> {}, curs |-> {}, n |-> 0]

CursorUsable(w) ==
    /\ w.cursor # None
    /\ w.cursor \in w.curs
    /\ w.cursor \in w.opened
    /\ w.cursor \in w.alive

ConnUsable(w) ==
    /\ w.conn # None
    /\ w.conn \in w.opened
    /\ w.conn \in w.alive

CredentialsMissing(cfg) ==
    ~cfg.trusted_connection /\ (~Truthy(cfg.username) \/ ~Truthy(cfg.password))

\* Of a session the manager has let go of, only whether it is still open can
\* matter: nothing can reach it or its cursor any more.
Held(w) == {w.conn, w.cursor} \ {None}

LetGo(w) == [w EXCEPT !.alive = @ \cap Held(w), !.curs = @ \cap Held(w)]

Result(w, ret, exc, calls, logs) ==
    [w |-> LetGo(w), ret |-> ret, exc |-> exc, calls |-> calls, logs |-> logs]

\* connect without its except clause: what was raised leaves connect.
connect_failed_raising(w, calls) == Result(w, FALSE, "Error", calls, 0)

\* connect's except clause: whatever was raised is logged, and connect
\* returns False.
connect_failed(w, calls) == Result(w, FALSE, "none", calls, 1)

connect(w, cfg, o) ==
    IF CredentialsMissing(cfg)
    THEN connect_failed(w, <<>>)
    ELSE IF ~o.connectOk
    THEN connect_failed(w, <<Call("pyodbc.connect", FALSE)>>)
    ELSE LET s == w.n + 1
             w1 == [w EXCEPT !.conn = s, !.opened = @ \cup {s},
                             !.alive = @ \cup {s}, !.n = s]
         IN  IF ~o.cursorOk
             THEN connect_failed(w1, <<Call("pyodbc.connect", TRUE),
                                       Call("conn.cursor", FALSE)>>)
             ELSE Result([w1 EXCEPT !.cursor = s, !.curs = @ \cup {s}], TRUE, "none",
                         <<Call("pyodbc.connect", TRUE), Call("conn.cursor", TRUE)>>, 0)

\* is_connected without its bare except: a failed health check raises.
is_connected_raising(w) ==
    IF w.conn = None
    THEN Result(w, FALSE, "none", <<>>, 0)
    ELSE IF w.cursor = None
    THEN Result(w, FALSE, "AttributeError", <<>>, 0)
    ELSE Result(w, CursorUsable(w), IF CursorUsable(w) THEN "none" ELSE "Error",
                <<Call("cursor.execute(SELECT 1)", CursorUsable(w))>>, 0)

is_connected(w) ==
    IF w.conn = None
    THEN Result(w, FALSE, "none", <<>>, 0)
    ELSE IF w.cursor = None
    THEN Result(w, FALSE, "none", <<>>, 0)
    ELSE Result(w, CursorUsable(w), "none",
                <<Call("cursor.execute(SELECT 1)", CursorUsable(w))>>, 0)

\* reconnect_if_needed without its short-circuit: it connects every time.
reconnect_always(w, cfg, o) ==
    LET h == is_connected(w)
        c == connect(w, cfg, o)
    IN  Result(c.w, c.ret, c.exc, h.calls \o c.calls, c.logs)

reconnect_if_needed(w, cfg, o) ==
    LET h == is_connected(w)
    IN  IF h.exc # "none"
        THEN h
        ELSE IF h.ret
        THEN Result(w, TRUE, "none", h.calls, 0)
        ELSE LET c == connect(w, cfg, o)
             IN  Result(c.w, c.ret, c.exc, h.calls \o c.calls, c.logs)

\* ------------------------------------------------------------- exec
RetBool(b) == [kind |-> "bool", v |-> b]

RetRows(rs) == [kind |-> "rows", v |-> rs]

RetInt(k) == [kind |-> "int", v |-> k]

RetNone == [kind |-> "none", v |-> None]

\* A Python dict as the sequence of its <<key, value>> items in insertion
\* order; assigning an existing key keeps its position.
DictSet(d, k, v) ==
    IF \E i \in 1..Len(d) : d[i][1] = k
    THEN [i \in 1..Len(d) |-> IF d[i][1] = k THEN <<k, v>> ELSE d[i]]
    ELSE Append(d, <<k, v>>)

RECURSIVE RowMapping(_, _, _)
RowMapping(columns, row, k) ==
    IF k = 0
    THEN <<>>
    ELSE DictSet(RowMapping(columns, row, k - 1), columns[k], row[k])

\* The rows materialized last first.
Materialize_reversed(columns, rows) ==
    [i \in 1..Len(rows) |->
        RowMapping(columns, rows[Len(rows) + 1 - i], Len(rows[Len(rows) + 1 - i]))]

Materialize(columns, rows) ==
    [i \in 1..Len(rows) |-> RowMapping(columns, rows[i], Len(rows[i]))]

Keys(d) == [i \in 1..Len(d) |-> d[i][1]]

\* The inner try of exec and its bare except: what exec returns once the
\* statement has executed, or raised when the second commit fails too.
fetch_or_count(w, stmt, o) ==
    LET fetchOk == o.fetchOk /\ CursorUsable(w)
        c1Ok == o.commit1Ok /\ ConnUsable(w)
        c2Ok == o.commit2Ok /\ ConnUsable(w)
        tried == IF ~stmt.hasDesc
                 THEN <<>>
                 ELSE IF ~fetchOk
                 THEN <<Call("cursor.fetchall", FALSE)>>
                 ELSE <<Call("cursor.fetchall", TRUE), Call("conn.commit", c1Ok)>>
    IN  IF stmt.hasDesc /\ fetchOk /\ c1Ok
        THEN [ret |-> RetRows(Materialize(stmt.columns, stmt.rows)),
              raised |-> FALSE, calls |-> tried]
        ELSE [ret |-> IF c2Ok THEN RetInt(stmt.rowcount) ELSE RetNone,
              raised |-> ~c2Ok,
              calls |-> tried \o <<Call("conn.commit", c2Ok)>>]

\* The outer except of exec: roll back, log, re-raise.  When the rollback
\* itself raises, its error propagates and nothing is logged.
on_execution_error(r, calls, o) ==
    LET rbOk == o.rollbackOk /\ ConnUsable(r.w)
    IN  Result(r.w, RetNone, "ExecutionError",
               calls \o <<Call("conn.rollback", rbOk)>>,
               r.logs + (IF rbOk THEN 1 ELSE 0))

exec(w, cfg, stmt, o) ==
    LET r == reconnect_if_needed(w, cfg, o)
    IN  IF r.exc # "none"
        THEN Result(r.w, RetNone, r.exc, r.calls, r.logs)
        ELSE IF ~r.ret
        THEN Result(r.w, RetNone, "ConnectionError", r.calls, r.logs + 1)
        ELSE LET execOk == o.execOk /\ CursorUsable(r.w)
                 sent == r.calls \o <<Call("cursor.execute", execOk)>>
             IN  IF ~execOk
                 THEN on_execution_error(r, sent, o)
                 ELSE LET f == fetch_or_count(r.w, stmt, o)
                      IN  IF f.raised
                          THEN on_execution_error(r, sent \o f.calls, o)
                          ELSE Result(r.w, f.ret, "none", sent \o f.calls, r.logs)

\* ------------------------------------------------------------- close
\* close that forgets to reset the cursor field.
clear_fields_keep_cursor(w) == [w EXCEPT !.conn = None]

clear_fields(w) == [w EXCEPT !.cursor = None, !.conn = None]

close(w) ==
    LET hasCur == w.cursor # None
        curOk == w.cursor \in w.curs /\ w.cursor \in w.opened
        w1 == IF hasCur /\ curOk THEN [w EXCEPT !.curs = @ \ {w.cursor}] ELSE w
        c1 == IF hasCur THEN <<Call("cursor.close", curOk)>> ELSE <<>>
        hasConn == w.conn # None
        connOk == w.conn \in w1.opened
        w2 == IF hasConn /\ connOk
              THEN [w1 EXCEPT !.opened = @ \ {w.conn}, !.alive = @ \ {w.conn},
                              !.curs = @ \ {w.conn}]
              ELSE w1
        c2 == IF hasConn THEN <<Call("conn.close", connOk)>> ELSE <<>>
    IN  IF hasCur /\ ~curOk
        THEN Result(w, RetNone, "ProgrammingError", c1, 0)
        ELSE IF hasConn /\ ~connOk
        THEN Result(w1, RetNone, "ProgrammingError", c1 \o c2, 0)
        ELSE Result(clear_fields(w2), RetNone, "none", c1 \o c2, 0)

\* ------------------------------------------------------------- dates
\* datetime.date as [y, m, d].
Date(y, m, d) == [y |-> y, m |-> m, d |-> d]

IsLeap(y) == y % 4 = 0 /\ (y % 100 # 0 \/ y % 400 = 0)

DaysInMonth(y, m) ==
    IF m = 2
    THEN (IF IsLeap(y) THEN 29 ELSE 28)
    ELSE IF m \in {4, 6, 9, 11} THEN 30 ELSE 31

DaysBeforeYear(y) ==
    365 * (y - 1) + ((y - 1) \div 4) - ((y - 1) \div 100) + ((y - 1) \div 400)

RECURSIVE DaysBeforeMonth(_, _)
DaysBeforeMonth(y, m) ==
    IF m = 1 THEN 0 ELSE DaysBeforeMonth(y, m - 1) + DaysInMonth(y, m - 1)

toordinal(dt) == DaysBeforeYear(dt.y) + DaysBeforeMonth(dt.y, dt.m) + dt.d

fromordinal(n) ==
    LET y == CHOOSE yy \in ((n \div 366) - 1)..((n \div 365) + 1) :
                 DaysBeforeYear(yy) < n /\ n <= DaysBeforeYear(yy + 1)
        r == n - DaysBeforeYear(y)
        m == CHOOSE mm \in 1..12 :
                 DaysBeforeMonth(y, mm) < r /\ r <= DaysBeforeMonth(y, mm) + DaysInMonth(y, mm)
    IN  Date(y, m, r - DaysBeforeMonth(y, m))

\* date.__gt__: by year, then month, then day.
DateAfter(a, b) ==
    \/ a.y > b.y
    \/ a.y = b.y /\ a.m > b.m
    \/ a.y = b.y /\ a.m = b.m /\ a.d > b.d

\* A command-line value: not given, the empty string, text that is no
\* Y-M-D, or three numbers joined by hyphens.
NoText == [kind |-> "none", y |-> 0, m |-> 0, d |-> 0]

EmptyText == [kind |-> "empty", y |-> 0, m |-> 0, d |-> 0]

JunkText == [kind |-> "junk", y |-> 0, m |-> 0, d |-> 0]

YmdText(y, m, d) == [kind |-> "ymd", y |-> y, m |-> m, d |-> d]

TextTruthy(t) == t.kind \notin {"none", "empty"}

\* datetime.strptime(text, "%Y-%m-%d") returns a date: four digits of year,
\* a month and a day of that month.
Parses(t) ==
    /\ t.kind = "ymd"
    /\ t.y \in 1..9999
    /\ t.m \in 1..12
    /\ t.d \in 1..DaysInMonth(t.y, t.m)

strptime(t) == Date(t.y, t.m, t.d)

\* strftime('%Y%m%d'): eight digits.
strftime(dt) ==
    <<dt.y \div 1000, (dt.y \div 100) % 10, (dt.y \div 10) % 10, dt.y % 10,
      dt.m \div 10, dt.m % 10, dt.d \div 10, dt.d % 10>>

NoDate == Date(0, 0, 0)

NoRange == [exc |-> "none", start |-> NoDate, end |-> NoDate]

Range(start, end) == [exc |-> "none", start |-> start, end |-> end]

Invalid == [exc |-> "ValueError", start |-> NoDate, end |-> NoDate]

\* The explicit range accepted without the start <= end test.
explicit_range_unordered(between, and) ==
    IF ~Parses(between) \/ ~Parses(and)
    THEN Invalid
    ELSE Range(strptime(between), strptime(and))

\* get_date_range, explicit mode.
explicit_range(between, and) ==
    IF ~Parses(between) \/ ~Parses(and)
    THEN Invalid
    ELSE IF DateAfter(strptime(between), strptime(and))
    THEN Invalid
    ELSE Range(strptime(between), strptime(and))

\* The previous month taken as month - 1 of the same year.
previous_month_same_year(today) ==
    LET m == IF today.m = 1 THEN 12 ELSE today.m - 1
    IN  Range(Date(today.y, m, 1), Date(today.y, m, DaysInMonth(today.y, m)))

\* get_date_range, previous-month mode.
previous_month(today) ==
    LET first_day_current == Date(today.y, today.m, 1)
        last_day_previous == fromordinal(toordinal(first_day_current) - 1)
        first_day_previous == Date(last_day_previous.y, last_day_previous.m, 1)
    IN  Range(first_day_previous, last_day_previous)

get_date_range(args, today) ==
    IF args.last_month
    THEN previous_month(today)
    ELSE explicit_range(args.between, args.and)

\* A command line; parse_args accepts it when exactly one of -last_month and
\* -between is given and -between comes with a non-empty -and.
CommandLine(last_month, between, and) ==
    [last_month |-> last_month, between |-> between, and |-> and]

NoArgs == CommandLine(FALSE, NoText, NoText)

parse_args_ok(line) ==
    /\ line.last_month # (line.between.kind # "none")
    /\ TextTruthy(line.between) => TextTruthy(line.and)

\* The local file's name: f"Report_{start:%Y%m%d}_to_{end:%Y%m%d}.xlsx".
NoFile == [prefix |-> "", start |-> <<>>, sep |-> "", end |-> <<>>, ext |-> ""]

\* The name built from the start date twice.
report_filename_start_twice(start_date, end_date) ==
    [prefix |-> "Report_", start |-> strftime(start_date), sep |-> "_to_",
     end |-> strftime(start_date), ext |-> ".xlsx"]

report_filename(start_date, end_date) ==
    [prefix |-> "Report_", start |-> strftime(start_date), sep |-> "_to_",
     end |-> strftime(end_date), ext |-> ".xlsx"]

\* ------------------------------------------------------------- state
VARIABLES
    w,        \* the manager's fields and the driver's sessions
    cfg,      \* the manager's ConnectionConfig
    phase,    \* "new" (no manager yet), "ready", "destroyed"
    last,     \* what the last manager operation did
    prev,     \* what the one before it did, when the two are calls in a row
    pc,       \* where the run of main() is
    conf,     \* the loaded configuration
    data,     \* what fetch_data returned to main
    exitCode, \* main's return value, -1 while it runs
    errKind,  \* the error that aborted the run
    outcome,  \* the message the run printed
    stats,    \* what the run has attempted so far
    fetch,    \* the fetch step: its manager, whether it closed it, how it ended
    dates     \* the command line, today's date, the resolved range, the file written

vars == <<w, cfg, phase, last, prev, pc, conf, data, exitCode, errKind,
          outcome, stats, fetch, dates>>

mgrVars == <<w, cfg, phase, last, prev>>

runVars == <<pc, conf, data, exitCode, errKind, outcome, stats, fetch, dates>>

\* The handle is live: the manager holds a session and that session's cursor,
\* and the database answers on it.
Live(m) == m.conn # None /\ m.cursor = m.conn /\ CursorUsable(m)

Fields(m) == [conn |-> m.conn, cursor |-> m.cursor, live |-> Live(m)]

NoOp ==
    [op |-> "none", pre |-> Fields(NewManager), ret |-> RetNone, exc |-> "none",
     calls |-> <<>>, logs |-> 0, stmt |-> NoStatement]

Obs(op, pre, ret, r, stmt) ==
    [op |-> op, pre |-> Fields(pre), ret |-> ret, exc |-> r.exc, calls |-> r.calls,
     logs |-> r.logs, stmt |-> stmt]

\* Of the call before the last one, when both called reconnect_if_needed or
\* both called close (two calls in a row): whether the handle was live and
\* whether the call succeeded.
NoRepeat == [op |-> "none", live |-> FALSE, ok |-> FALSE]

Brief(l, op) ==
    IF l.op = op
    THEN [op |-> l.op, live |-> l.pre.live,
          ok |-> l.exc = "none" /\ (l.ret.kind = "bool" => l.ret.v)]
    ELSE NoRepeat

DefaultConfig ==
    [username |-> NoneStr, password |-> "", trusted_connection |-> FALSE]

MailFields == {"api_url", "api_key", "from_email", "from_name", "subject", "recipients"}

NoStats == [attempts |-> 0, queries |-> 0, renders |-> 0, sends |-> 0, files |-> 0]

NoFetch == [opened |-> FALSE, closed |-> FALSE, ended |-> "no", held |-> FALSE]

NoDates == [args |-> NoArgs, today |-> NoDate, range |-> NoRange, file |-> NoFile]

\* The mail section of the configuration: absent, or the keys it has.
NoMail == [section |-> FALSE, keys |-> {}]

MailSections ==
    {NoMail, [section |-> TRUE, keys |-> MailFields], [section |-> TRUE, keys |-> {}]}
        \cup {[section |-> TRUE, keys |-> MailFields \ {k}] : k \in MailFields}

\* main's test: "mail" in config and all six keys in config["mail"].
MailComplete(c) == c.mail.section /\ \A key \in MailFields : key \in c.mail.keys

NoConf == [dbKeys |-> FALSE, user |-> NoneStr, password |-> "", mail |-> NoMail]

\* What load_configs may return: with or without db.connection_data and its
\* keys, the credentials present or not, the mail section absent, incomplete
\* or complete.  The values present have the types the pipeline expects.
Configurations ==
    {c \in [dbKeys : BOOLEAN, user : {NoneStr, "reporter"}, password : {"", "secret"},
            mail : MailSections] :
        ~c.dbKeys => c.user = NoneStr /\ c.password = ""}

\* A session opens only while the model has a number left for it.
CanOpen(o) == o.connectOk => w.n < MaxSessions

\* The outcome record names one outcome per driver call an operation can
\* make; the calls it does not reach have none, written FALSE, and a statement
\* that did not execute has no result.
NoExecOutcome(o) ==
    ~o.execOk /\ ~o.fetchOk /\ ~o.commit1Ok /\ ~o.commit2Ok /\ ~o.rollbackOk

NoConnectOutcome(o) == ~o.connectOk /\ ~o.cursorOk

ExecOutcome(stmt, o) ==
    /\ ~o.execOk => stmt = NoStatement /\ ~o.fetchOk /\ ~o.commit2Ok
    /\ o.fetchOk => stmt.hasDesc
    /\ o.commit1Ok => o.fetchOk
    /\ o.commit2Ok => ~o.commit1Ok
    /\ o.rollbackOk => ~o.commit1Ok /\ ~o.commit2Ok

\* connect(): the driver refuses the session, or the cursor, or neither.
ConnectChoices ==
    {o \in DriverOutcomes : NoExecOutcome(o) /\ (o.cursorOk => o.connectOk)}

\* exec(): the outcomes of its connect() and of its statement.
ExecChoicesOf(statements) ==
    {c \in DriverOutcomes \X (statements \cup {NoStatement}) :
        /\ c[1].cursorOk => c[1].connectOk
        /\ c[1].execOk => c[2] \in statements
        /\ ExecOutcome(c[2], c[1])}

ExecChoices == ExecChoicesOf(Statements)

SomeExecChoices == ExecChoicesOf(SomeStatements)

ConnectOutcome(m, c, o) == o.connectOk => ~CredentialsMissing(c)

ReconnectOutcome(m, c, o) ==
    IF is_connected(m).ret THEN NoConnectOutcome(o) ELSE ConnectOutcome(m, c, o)

ExecOutcomes(m, c, stmt, o) ==
    /\ ReconnectOutcome(m, c, o)
    /\ (~is_connected(m).ret /\ ~o.cursorOk) => stmt = NoStatement /\ NoExecOutcome(o)

Attempts(calls) == Cardinality({i \in 1..Len(calls) : calls[i][1] = "pyodbc.connect"})

Queries(calls) == Cardinality({i \in 1..Len(calls) : calls[i][1] = "cursor.execute"})

\* ------------------------------------------------------------- manager operations
\* __init__ without its auto-connect: the handle would be created on first use.
Init__lazy(c, o) ==
    /\ cfg' = c
    /\ w' = NewManager
    /\ phase' = "ready"
    /\ prev' = NoRepeat
    /\ last' = Obs("__init__", NewManager, RetNone,
                   Result(NewManager, RetNone, "none", <<>>, 0), NoStatement)

\* SQLConnection.__init__: store the configuration, then connect.
Init__(c, o) ==
    LET r == connect(NewManager, c, o)
    IN  /\ cfg' = c
        /\ w' = r.w
        /\ phase' = "ready"
        /\ prev' = NoRepeat
        /\ last' = Obs("__init__", NewManager, RetNone, r, NoStatement)

CallConnect(o) ==
    LET r == connect(w, cfg, o)
    IN  /\ w' = r.w
        /\ prev' = NoRepeat
        /\ last' = Obs("connect", w, RetBool(r.ret), r, NoStatement)
        /\ UNCHANGED <<cfg, phase>>

CallIsConnected ==
    LET r == is_connected(w)
    IN  /\ prev' = NoRepeat
        /\ last' = Obs("is_connected", w, RetBool(r.ret), r, NoStatement)
        /\ UNCHANGED <<w, cfg, phase>>

CallReconnect(o) ==
    LET r == reconnect_if_needed(w, cfg, o)
    IN  /\ w' = r.w
        /\ prev' = Brief(last, "reconnect_if_needed")
        /\ last' = Obs("reconnect_if_needed", w, RetBool(r.ret), r, NoStatement)
        /\ UNCHANGED <<cfg, phase>>

CallExec(stmt, o) ==
    LET r == exec(w, cfg, stmt, o)
    IN  /\ w' = r.w
        /\ prev' = NoRepeat
        /\ last' = Obs("exec", w, r.ret, r, stmt)
        /\ UNCHANGED <<cfg, phase>>

CallClose ==
    LET r == close(w)
    IN  /\ w' = r.w
        /\ prev' = Brief(last, "close")
        /\ last' = Obs("close", w, RetNone, r, NoStatement)
        /\ UNCHANGED <<cfg, phase>>

\* SQLConnection.__del__: close(), whenever the runtime collects the manager.
Del__ ==
    LET r == close(w)
    IN  /\ w' = r.w
        /\ phase' = "destroyed"
        /\ prev' = Brief(last, "__del__")
        /\ last' = Obs("__del__", w, RetNone, r, NoStatement)
        /\ UNCHANGED cfg

\* ------------------------------------------------------------- environment
\* The database or the network drops a session the manager holds (whether a
\* session it has let go of is still answered, nothing can observe).
SessionDrop ==
    /\ \E s \in w.alive \cap {w.conn, w.cursor} : w' = [w EXCEPT !.alive = @ \ {s}]
    /\ UNCHANGED <<cfg, phase, last, prev>>
    /\ UNCHANGED runVars

\* The runtime collects a driver session nothing refers to any more, which
\* closes it: at once, later or never.
Finalize ==
    /\ \E s \in w.opened :
          /\ s # w.conn
          /\ s # w.cursor
          /\ w' = [w EXCEPT !.opened = @ \ {s}, !.alive = @ \ {s}, !.curs = @ \ {s}]
    /\ UNCHANGED <<cfg, phase, last, prev>>
    /\ UNCHANGED runVars

\* ------------------------------------------------------------- harness
\* Any sequence of operations on one manager.
HarnessInit ==
    /\ w = NewManager
    /\ cfg = DefaultConfig
    /\ phase = "new"
    /\ last = NoOp
    /\ prev = NoRepeat
    /\ pc = "harness"
    /\ conf = NoConf
    /\ data = RetNone
    /\ exitCode = -1
    /\ errKind = "none"
    /\ outcome = "none"
    /\ stats = NoStats
    /\ fetch = NoFetch
    /\ dates = NoDates

Construct ==
    /\ pc = "harness"
    /\ phase = "new"
    /\ \E c \in ConnectionConfigs, o \in ConnectChoices :
          /\ ConnectOutcome(NewManager, c, o)
          /\ Init__(c, o)
    /\ UNCHANGED runVars

Operate ==
    /\ pc = "harness"
    /\ phase = "ready"
    /\ \/ \E o \in ConnectChoices :
             /\ CanOpen(o)
             /\ ConnectOutcome(w, cfg, o)
             /\ CallConnect(o)
       \/ CallIsConnected
       \/ \E o \in ConnectChoices :
             /\ CanOpen(o)
             /\ ReconnectOutcome(w, cfg, o)
             /\ CallReconnect(o)
       \/ \E c \in SomeExecChoices :
             /\ CanOpen(c[1])
             /\ ExecOutcomes(w, cfg, c[2], c[1])
             /\ CallExec(c[2], c[1])
       \/ CallClose
    /\ UNCHANGED runVars

\* exec() alone, with every result a statement may have.
Execute ==
    /\ pc = "harness"
    /\ phase = "ready"
    /\ \E c \in ExecChoices :
          /\ CanOpen(c[1])
          /\ ExecOutcomes(w, cfg, c[2], c[1])
          /\ CallExec(c[2], c[1])
    /\ UNCHANGED runVars

Discard ==
    /\ pc = "harness"
    /\ phase = "ready"
    /\ Del__
    /\ UNCHANGED runVars

MgrNext == Construct \/ Operate \/ Discard \/ SessionDrop \/ Finalize

MgrSpec == HarnessInit /\ [][MgrNext]_vars

ExecNext == Construct \/ Execute \/ SessionDrop \/ Finalize

ExecSpec == HarnessInit /\ [][ExecNext]_vars

\* ------------------------------------------------------------- date ranges
\* get_date_range alone, on every input of the sets below.
Years == {1900, 2000, 2023, 2024, 2025}

AllDays ==
    {dt \in {Date(y, m, d) : y \in Years, m \in 1..12, d \in 1..31} :
        dt.d <= DaysInMonth(dt.y, dt.m)}

\* Texts given for -between and -and: days that exist, days that do not,
\* and text that is no date.
DateTexts ==
    {YmdText(y, m, d) : y \in {2023, 2024}, m \in {0, 1, 2, 12, 13},
                        d \in {0, 1, 28, 29, 30, 31, 32}}
        \cup {JunkText, EmptyText}

\* What parse_args hands to get_date_range.
ParsedArgs ==
    {CommandLine(TRUE, NoText, NoText)}
        \cup {line \in {CommandLine(FALSE, b, a) : b \in DateTexts,
                                                  a \in DateTexts \cup {NoText}} :
                 parse_args_ok(line)}

DateInit ==
    /\ w = NewManager
    /\ cfg = DefaultConfig
    /\ phase = "new"
    /\ last = NoOp
    /\ prev = NoRepeat
    /\ pc = "dates"
    /\ conf = NoConf
    /\ data = RetNone
    /\ exitCode = -1
    /\ errKind = "none"
    /\ outcome = "none"
    /\ stats = NoStats
    /\ fetch = NoFetch
    /\ \E line \in ParsedArgs :
          \E today \in (IF line.last_month THEN AllDays ELSE {NoDate}) :
             dates = [NoDates EXCEPT !.args = line, !.today = today]

GetDateRange ==
    /\ pc = "dates"
    /\ pc' = "resolved"
    /\ dates' = [dates EXCEPT !.range = get_date_range(dates.args, dates.today)]
    /\ UNCHANGED <<conf, data, exitCode, errKind, outcome, stats, fetch>>
    /\ UNCHANGED mgrVars

DateNext == GetDateRange

DateSpec == DateInit /\ [][DateNext]_vars

\* ------------------------------------------------------------- pipeline
\* One run of main().
Init ==
    /\ w = NewManager
    /\ cfg = DefaultConfig
    /\ phase = "new"
    /\ last = NoOp
    /\ prev = NoRepeat
    /\ pc = "Idle"
    /\ conf = NoConf
    /\ data = RetNone
    /\ exitCode = -1
    /\ errKind = "none"
    /\ outcome = "none"
    /\ stats = NoStats
    /\ fetch = NoFetch
    /\ dates = NoDates

Running == pc \notin {"Done", "Aborted", "harness", "dates", "resolved"}

InFetch == pc \in {"Fetching", "FetchExec", "FetchClose"}

\* An exception reaches main's handlers: the message is printed and main
\* returns code.
Abort(kind, code) ==
    /\ pc' = "Aborted"
    /\ errKind' = kind
    /\ exitCode' = code

\* fetch_data is left by an exception; m is the manager as it is then.
FetchRaised(m) ==
    fetch' = [fetch EXCEPT !.ended = "raised", !.held = m.conn # None]

Counted(calls) ==
    [stats EXCEPT !.attempts = @ + Attempts(calls), !.queries = @ + Queries(calls)]

\* The command lines of the runs: each mode, well and badly formed.
CommandLines ==
    {CommandLine(TRUE, NoText, NoText),
     CommandLine(FALSE, NoText, NoText),
     CommandLine(TRUE, YmdText(2024, 1, 1), YmdText(2024, 1, 31)),
     CommandLine(FALSE, YmdText(2024, 1, 1), NoText),
     CommandLine(FALSE, EmptyText, NoText),
     CommandLine(FALSE, YmdText(2024, 2, 1), YmdText(2024, 2, 29)),
     CommandLine(FALSE, YmdText(2024, 12, 31), YmdText(2025, 1, 1)),
     CommandLine(FALSE, YmdText(2024, 3, 2), YmdText(2024, 3, 1)),
     CommandLine(FALSE, YmdText(2023, 2, 29), YmdText(2023, 3, 1)),
     CommandLine(FALSE, JunkText, YmdText(2024, 1, 1))}

\* The days a run may take place on.
Todays == {Date(2025, 1, 15), Date(2024, 3, 31)}

\* parse_args: argparse ends the process itself, with status 2, on a bad
\* command line.
ParseArgs ==
    /\ pc = "Idle"
    /\ \E line \in CommandLines :
          IF parse_args_ok(line)
          THEN /\ dates' = [dates EXCEPT !.args = line]
               /\ pc' = "LoadingConfig"
               /\ UNCHANGED <<errKind, exitCode>>
          ELSE /\ Abort("SystemExit", 2)
               /\ UNCHANGED dates
    /\ UNCHANGED <<conf, data, outcome, stats, fetch>>
    /\ UNCHANGED mgrVars

\* load_configs followed at once by the construction of the manager.
LoadConfig_eager ==
    /\ pc = "LoadingConfig"
    /\ \E c \in Configurations, o \in ConnectChoices :
          LET cc == [username |-> c.user, password |-> c.password,
                     trusted_connection |-> FALSE]
          IN  /\ conf' = c
              /\ ConnectOutcome(NewManager, cc, o)
              /\ Init__(cc, o)
    /\ stats' = Counted(last'.calls)
    /\ pc' = "ResolvingDates"
    /\ UNCHANGED <<errKind, exitCode, data, outcome, fetch, dates>>

\* main, lines 176-181: load_configs(config_path).
LoadConfig ==
    /\ pc = "LoadingConfig"
    /\ \/ /\ \E c \in Configurations : conf' = c
          /\ pc' = "ResolvingDates"
          /\ UNCHANGED <<errKind, exitCode>>
       \/ Abort("ConfigurationError", 1) /\ UNCHANGED conf
    /\ UNCHANGED <<data, outcome, stats, fetch, dates>>
    /\ UNCHANGED mgrVars

\* main, line 184: get_date_range(args); previous-month mode reads the clock.
ResolveDates ==
    /\ pc = "ResolvingDates"
    /\ \E today \in (IF dates.args.last_month THEN Todays ELSE {NoDate}) :
          LET r == get_date_range(dates.args, today)
          IN  /\ dates' = [dates EXCEPT !.today = today, !.range = r]
              /\ IF r.exc # "none"
                 THEN Abort("ValidationError", 1)
                 ELSE pc' = "Fetching" /\ UNCHANGED <<errKind, exitCode>>
    /\ UNCHANGED <<conf, data, outcome, stats, fetch>>
    /\ UNCHANGED mgrVars

\* fetch_data, first statement: SQLConnection(server, database, username,
\* password), or KeyError when the configuration lacks one of the keys.
FetchConstruct ==
    /\ pc = "Fetching"
    /\ \/ /\ ~conf.dbKeys
          /\ Abort("KeyError", 1)
          /\ FetchRaised(w)
          /\ UNCHANGED stats
          /\ UNCHANGED mgrVars
       \/ /\ conf.dbKeys
          /\ \E o \in ConnectChoices :
                LET c == [username |-> conf.user, password |-> conf.password,
                          trusted_connection |-> FALSE]
                IN  /\ ConnectOutcome(NewManager, c, o)
                    /\ Init__(c, o)
          /\ stats' = Counted(last'.calls)
          /\ fetch' = [fetch EXCEPT !.opened = TRUE]
          /\ pc' = "FetchExec"
          /\ UNCHANGED <<errKind, exitCode>>
    /\ UNCHANGED <<dates, conf, data, outcome>>

ReportExecChoices == ExecChoicesOf(get_ops_between_dates)

\* fetch_data, second statement: connection.exec(get_ops_between_dates, params).
FetchExec ==
    /\ pc = "FetchExec"
    /\ \E c \in ReportExecChoices :
          /\ CanOpen(c[1])
          /\ ExecOutcomes(w, cfg, c[2], c[1])
          /\ CallExec(c[2], c[1])
    /\ stats' = Counted(last'.calls)
    /\ IF last'.exc # "none"
       THEN /\ Abort(last'.exc, 1)
            /\ FetchRaised(w')
            /\ UNCHANGED data
       ELSE /\ data' = last'.ret
            /\ pc' = "FetchClose"
            /\ UNCHANGED <<errKind, exitCode, fetch>>
    /\ UNCHANGED <<dates, conf, outcome>>

\* fetch_data, third statement: connection.close(), then return results.
FetchClose ==
    /\ pc = "FetchClose"
    /\ CallClose
    /\ IF last'.exc # "none"
       THEN /\ Abort(last'.exc, 1)
            /\ FetchRaised(w')
       ELSE /\ pc' = "Fetched"
            /\ fetch' = [fetch EXCEPT !.closed = TRUE, !.ended = "returned",
                                      !.held = w'.conn # None]
            /\ UNCHANGED <<errKind, exitCode>>
    /\ UNCHANGED <<dates, conf, data, outcome, stats>>

\* main without its emptiness test.
CheckData_no_test ==
    /\ pc = "Fetched"
    /\ IF data.kind # "rows"
       THEN Abort("TypeError", 1)
       ELSE pc' = "Rendering" /\ UNCHANGED <<errKind, exitCode>>
    /\ UNCHANGED <<dates, conf, data, outcome, stats, fetch>>
    /\ UNCHANGED mgrVars

\* main, lines 190-195: len(data), then the emptiness test.
CheckData ==
    /\ pc = "Fetched"
    /\ IF data.kind # "rows"
       THEN Abort("TypeError", 1) /\ UNCHANGED outcome
       ELSE IF Len(data.v) = 0
       THEN pc' = "Done" /\ exitCode' = 0 /\ outcome' = "no data" /\ UNCHANGED errKind
       ELSE pc' = "Rendering" /\ UNCHANGED <<errKind, exitCode, outcome>>
    /\ UNCHANGED <<dates, conf, data, stats, fetch>>
    /\ UNCHANGED mgrVars

\* generate_excel_report(data): the workbook, or the error it raises: its own
\* ValueError on empty data, or openpyxl's on a value it cannot write.
Render ==
    /\ pc = "Rendering"
    /\ stats' = [stats EXCEPT !.renders = @ + 1]
    /\ IF Len(data.v) = 0
       THEN Abort("ValueError", 1)
       ELSE \/ pc' = "Delivering" /\ UNCHANGED <<errKind, exitCode>>
            \/ Abort("RenderError", 1)
    /\ UNCHANGED <<dates, conf, data, outcome, fetch>>
    /\ UNCHANGED mgrVars

\* Deliver that falls back to the local file when the mail is not sent.
Deliver_with_fallback ==
    /\ pc = "Delivering"
    /\ IF MailComplete(conf)
       THEN \E sent \in BOOLEAN :
               /\ stats' = [stats EXCEPT !.sends = @ + 1,
                                         !.files = IF sent THEN @ ELSE @ + 1]
               /\ outcome' = IF sent THEN "sent" ELSE "saved locally"
               /\ dates' = IF sent THEN dates
                           ELSE [dates EXCEPT !.file = report_filename(dates.range.start,
                                                                       dates.range.end)]
       ELSE /\ stats' = [stats EXCEPT !.files = @ + 1]
            /\ outcome' = "saved locally"
            /\ dates' = [dates EXCEPT !.file = report_filename(dates.range.start,
                                                               dates.range.end)]
    /\ pc' = "Done"
    /\ exitCode' = 0
    /\ UNCHANGED <<errKind, conf, data, fetch>>
    /\ UNCHANGED mgrVars

\* main, lines 202-226: send the report, or write it to the local file.
\* send_email_with_attachment returns a boolean whatever happens; opening or
\* writing the file may raise OSError.
Deliver ==
    /\ pc = "Delivering"
    /\ IF MailComplete(conf)
       THEN /\ stats' = [stats EXCEPT !.sends = @ + 1]
            /\ \E sent \in BOOLEAN :
                  outcome' = IF sent THEN "sent" ELSE "generated but not delivered"
            /\ pc' = "Done"
            /\ exitCode' = 0
            /\ UNCHANGED <<errKind, dates>>
       ELSE \/ /\ stats' = [stats EXCEPT !.files = @ + 1]
               /\ outcome' = "saved locally"
               /\ dates' = [dates EXCEPT !.file = report_filename(dates.range.start,
                                                                  dates.range.end)]
               /\ pc' = "Done"
               /\ exitCode' = 0
               /\ UNCHANGED errKind
            \/ /\ Abort("OSError", 1)
               /\ UNCHANGED <<stats, outcome, dates>>
    /\ UNCHANGED <<conf, data, fetch>>
    /\ UNCHANGED mgrVars

\* The user interrupts the run: KeyboardInterrupt, main returns 1.
Interrupt ==
    /\ Running
    /\ pc # "Idle"
    /\ Abort("KeyboardInterrupt", 1)
    /\ IF InFetch THEN FetchRaised(w) ELSE UNCHANGED fetch
    /\ UNCHANGED <<dates, conf, data, outcome, stats>>
    /\ UNCHANGED mgrVars

\* The runtime collects the manager fetch_data created, some time after
\* fetch_data was left.
Collect ==
    /\ pc # "harness"
    /\ phase = "ready"
    /\ fetch.ended # "no"
    /\ Del__
    /\ UNCHANGED runVars

Next ==
    \/ ParseArgs
    \/ LoadConfig
    \/ ResolveDates
    \/ FetchConstruct
    \/ FetchExec
    \/ FetchClose
    \/ CheckData
    \/ Render
    \/ Deliver
    \/ Interrupt
    \/ Collect
    \/ SessionDrop
    \/ Finalize

Spec == Init /\ [][Next]_vars

\* ------------------------------------------------------------- claims
LastCall(calls) == calls[Len(calls)][1]

\* C1: in every run whose fetch step opened a Connection Manager, close() was
\* called on it before the fetch step finished, when exec() returned and when
\* exec() raised a connection or an execution error, and the fetch step is
\* never left with the session still held open.
C1_ClosedWhenFetchEnds ==
    (/\ fetch.opened
     /\ \/ fetch.ended = "returned"
        \/ fetch.ended = "raised" /\ errKind \in {"ConnectionError", "ExecutionError"})
        => fetch.closed /\ ~fetch.held

\* A driver call of exec, past the liveness check, that raised.
FailedInExec(calls) ==
    \E i \in 1..Len(calls) :
        calls[i] \in {Call("cursor.execute", FALSE), Call("cursor.fetchall", FALSE),
                      Call("conn.commit", FALSE)}

\* C2: an exec() in which the statement's execution, the reading of its
\* result or its commit failed ends with rollback as its last driver call and
\* raises to the caller; an exec() that ends with an error has no successful
\* commit; a statement whose execution failed never ends with exec()
\* returning normally.
C2_RollbackAndReraise ==
    last.op = "exec" =>
        /\ last.exc # "none" => ~CalledOk(last.calls, "conn.commit")
        /\ FailedInExec(last.calls) =>
              /\ last.exc = "ExecutionError"
              /\ LastCall(last.calls) = "conn.rollback"

\* C3: an exec() that returns, returns the row mappings (one per result row,
\* keyed by the column names in column order) exactly when the statement has a
\* column description, and the affected-row count exactly when it has none.
C3_ShapeByDescription ==
    (last.op = "exec" /\ last.exc = "none") =>
        IF last.stmt.hasDesc
        THEN /\ last.ret.kind = "rows"
             /\ Len(last.ret.v) = Len(last.stmt.rows)
             /\ \A i \in 1..Len(last.ret.v) : Keys(last.ret.v[i]) = last.stmt.columns
        ELSE /\ last.ret.kind = "int"
             /\ last.ret.v = last.stmt.rowcount

\* C4: at most one driver session opened by the manager is open at any time.
C4_OneOpenSession == Cardinality(w.opened) <= 1

\* C5: a run attempts every step at most once: the driver connection, the
\* report query, the rendering and the delivery.
C5_EachStepOnce ==
    /\ stats.attempts <= 1
    /\ stats.queries <= 1
    /\ stats.renders <= 1
    /\ stats.sends + stats.files <= 1

\* exec's reconnect_if_needed returned true: the health check answered, or
\* connect obtained a session and its cursor.
Ensured(calls) ==
    CalledOk(calls, "cursor.execute(SELECT 1)") \/ CalledOk(calls, "conn.cursor")

\* C6: is_connected, connect and reconnect_if_needed (and the constructor's
\* connect) never raise; exec raises ConnectionError exactly when its
\* reconnect_if_needed returned failure, and then without sending the
\* statement; the statement is sent only right after liveness was ensured.
C6_ConnectionErrorFromExec ==
    /\ last.op \in {"__init__", "connect", "is_connected", "reconnect_if_needed"}
          => last.exc = "none"
    /\ last.op = "exec" =>
          /\ last.exc = "ConnectionError" <=> ~Ensured(last.calls)
          /\ ~Ensured(last.calls) => ~Called(last.calls, "cursor.execute")
          /\ \A i \in 1..Len(last.calls) :
                last.calls[i][1] = "cursor.execute" =>
                    /\ i > 1
                    /\ last.calls[i - 1] \in {Call("cursor.execute(SELECT 1)", TRUE),
                                               Call("conn.cursor", TRUE)}

\* C6 witness: the health check failed, the reconnect failed in the driver,
\* and exec raised ConnectionError.
C6_Witness ==
    /\ last.op = "exec"
    /\ last.exc = "ConnectionError"
    /\ last.calls = <<Call("cursor.execute(SELECT 1)", FALSE), Call("pyodbc.connect", FALSE)>>

\* connect obtained a session and its cursor.
Obtained(calls) == CalledOk(calls, "pyodbc.connect") /\ CalledOk(calls, "conn.cursor")

\* C7: connect never raises; it returns true exactly when a session and a
\* cursor were obtained, which the manager then holds, and it logs every
\* failure.
C7_ConnectNeverRaises ==
    last.op \in {"connect", "__init__"} =>
        /\ last.exc = "none"
        /\ last.op = "connect" => last.ret = RetBool(Obtained(last.calls))
        /\ last.logs = IF Obtained(last.calls) THEN 0 ELSE 1
        /\ Obtained(last.calls) => w.conn # None /\ w.cursor = w.conn

\* C7 witness: a connect that the driver refused returned false.
C7_Witness ==
    /\ last.op = "connect"
    /\ last.ret = RetBool(FALSE)
    /\ Call("pyodbc.connect", FALSE) \in {last.calls[i] : i \in 1..Len(last.calls)}

\* C8: a run whose manager has trusted mode off and lacks a credential aborts
\* with a configuration error, and no driver connection was attempted.
C8_ConfigurationErrorReachesRun ==
    (/\ pc = "Aborted"
     /\ phase # "new"
     /\ CredentialsMissing(cfg)
     /\ errKind # "KeyboardInterrupt")
        => errKind = "ConfigurationError" /\ stats.attempts = 0

\* C9: reconnect_if_needed on a live handle returns true, opens no driver
\* session and leaves the session and cursor fields as they were; so do two
\* calls in a row.
C9_ReconnectIdempotent ==
    (last.op = "reconnect_if_needed" /\ last.pre.live) =>
        /\ last.exc = "none"
        /\ last.ret = RetBool(TRUE)
        /\ Attempts(last.calls) = 0
        /\ w.conn = last.pre.conn
        /\ w.cursor = last.pre.cursor
        /\ (prev.op = "reconnect_if_needed" /\ prev.live) => prev.ok

\* C9 witness: two calls in a row on a live handle.
C9_Witness ==
    /\ last.op = "reconnect_if_needed"
    /\ last.pre.live
    /\ prev.op = "reconnect_if_needed"
    /\ prev.live
    /\ w.conn # None

\* C10: close never fails and leaves both fields absent, with the cursor and
\* the session it held released; a close right after a close makes no driver
\* call.
C10_CloseIdempotent ==
    last.op = "close" =>
        /\ last.exc = "none"
        /\ w.conn = None
        /\ w.cursor = None
        /\ last.pre.conn # None => last.pre.conn \notin w.opened
        /\ last.pre.cursor # None => last.pre.cursor \notin w.curs
        /\ (last.pre.conn = None /\ last.pre.cursor = None) => last.calls = <<>>
        /\ prev.op = "close" => last.calls = <<>>

\* C10 witness: a manager that held a session, closed twice in a row.
C10_Witness ==
    /\ last.op = "close"
    /\ prev.op = "close"
    /\ w.n > 0
    /\ last.calls = <<>>

\* C11: constructing a Connection Manager opens no driver session; the first
\* session is opened only by the first use.
C11_LazyHandle == last.op = "__init__" => w.n = 0 /\ w.opened = {}

\* C11 as amended: the constructor connects at once.  No session exists
\* before construction; the constructor attempts one driver connection unless
\* the credentials are missing, and a session has been opened by the end of
\* construction exactly when that attempt succeeded.
C11_ConnectsOnConstruction ==
    /\ phase = "new" => w.n = 0 /\ w.opened = {}
    /\ last.op = "__init__" =>
          /\ Attempts(last.calls) = IF CredentialsMissing(cfg) THEN 0 ELSE 1
          /\ w.n = IF CalledOk(last.calls, "pyodbc.connect") THEN 1 ELSE 0

\* C11 witness: a manager just constructed holds an open session.
C11_Witness ==
    /\ last.op = "__init__"
    /\ w.n = 1
    /\ w.conn \in w.opened

\* C18: in explicit-range mode the resolver returns exactly (start, end) when
\* both texts are calendar dates with start <= end, and fails with a
\* validation error when start > end or a text does not parse; every range it
\* returns has start <= end.
C18_ExplicitRange ==
    (pc = "resolved" /\ ~dates.args.last_month) =>
        LET b == dates.args.between
            a == dates.args.and
            r == dates.range
        IN  /\ IF Parses(b) /\ Parses(a) /\ toordinal(Date(b.y, b.m, b.d))
                                             <= toordinal(Date(a.y, a.m, a.d))
               THEN r = [exc |-> "none", start |-> Date(b.y, b.m, b.d),
                         end |-> Date(a.y, a.m, a.d)]
               ELSE r.exc = "ValueError"
            /\ r.exc = "none" => toordinal(r.start) <= toordinal(r.end)

\* C18 witness: two calendar dates with the start after the end were
\* rejected.
C18_Witness ==
    /\ pc = "resolved"
    /\ ~dates.args.last_month
    /\ Parses(dates.args.between)
    /\ Parses(dates.args.and)
    /\ dates.range.exc = "ValueError"

\* C19: in previous-month mode the resolver returns the first and the last
\* day of the month before the reference date's month: the year before when
\* the reference month is January, and the last day by the month's length.
C19_PreviousMonth ==
    (pc = "resolved" /\ dates.args.last_month) =>
        LET t == dates.today
            r == dates.range
        IN  /\ r.exc = "none"
            /\ r.start.d = 1
            /\ r.start.m = IF t.m = 1 THEN 12 ELSE t.m - 1
            /\ r.start.y = IF t.m = 1 THEN t.y - 1 ELSE t.y
            /\ r.end.y = r.start.y
            /\ r.end.m = r.start.m
            /\ r.end.d = IF r.end.m = 2
                         THEN (IF r.end.y % 4 = 0 /\ (r.end.y % 100 # 0 \/ r.end.y % 400 = 0)
                               THEN 29 ELSE 28)
                         ELSE IF r.end.m \in {4, 6, 9, 11} THEN 30 ELSE 31

\* C19 witness: a reference date in January gave December of the year before.
C19_Witness ==
    /\ pc = "resolved"
    /\ dates.args.last_month
    /\ dates.today.m = 1
    /\ dates.range.start = Date(dates.today.y - 1, 12, 1)
    /\ dates.range.end = Date(dates.today.y - 1, 12, 31)

\* The loaded configuration has a mail section with all six fields.
SixFields == conf.mail.section /\ MailFields \subseteq conf.mail.keys

NonEmptyRows == data.kind = "rows" /\ Len(data.v) > 0

\* C12: when the fetch yields zero rows the run reports "no data", never
\* renders, sends no mail, writes no file and ends with exit code 0 (only the
\* user's interruption can end it otherwise).
C12_NoDataRun ==
    (data.kind = "rows" /\ Len(data.v) = 0) =>
        /\ stats.renders = 0 /\ stats.sends = 0 /\ stats.files = 0
        /\ dates.file = NoFile
        /\ pc = "Done" => outcome = "no data" /\ exitCode = 0
        /\ pc = "Aborted" => errKind = "KeyboardInterrupt"

\* C12 witness: a run that fetched zero rows is done.
C12_Witness ==
    /\ pc = "Done"
    /\ data = RetRows(<<>>)
    /\ outcome = "no data"
    /\ CalledOk(last.calls, "conn.close")

C15_ExitCodes ==
    pc \in {"Done", "Aborted"} =>
        /\ exitCode \in {0, 1}
        /\ exitCode = 0 <=> pc = "Done"

\* C16: once the fetch has returned rows the run cannot abort (but by the
\* user's interruption): it goes on to Done with exit code 0, and neither
\* rendering nor delivery ends it in the aborted state.
C16_NoAbortAfterRows ==
    /\ (data.kind = "rows" /\ errKind # "KeyboardInterrupt") => pc # "Aborted"
    /\ pc = "Done" => exitCode = 0

\* C17: when date-range resolution fails with a validation error the run is
\* aborted with nothing attempted: no manager constructed, no driver
\* connection, no query, no rendering, no mail, no file.
C17_NothingBeforeValidation ==
    errKind = "ValidationError" =>
        /\ pc = "Aborted"
        /\ exitCode = 1
        /\ stats = NoStats
        /\ phase = "new"
        /\ w = NewManager
        /\ ~fetch.opened
        /\ dates.file = NoFile

\* C17 witness: a start date after the end date aborted the run.
C17_Witness ==
    /\ errKind = "ValidationError"
    /\ Parses(dates.args.between)
    /\ Parses(dates.args.and)
    /\ pc = "Aborted"

\* C20: the i-th row mapping exec() returns is built from the i-th row the
\* driver delivered: every value in it is that row's value for its column.
C20_RowOrderKept ==
    (last.op = "exec" /\ last.exc = "none" /\ last.ret.kind = "rows") =>
        /\ Len(last.ret.v) = Len(last.stmt.rows)
        /\ \A i \in 1..Len(last.ret.v) :
              \A k \in 1..Len(last.ret.v[i]) :
                 \E j \in 1..Len(last.stmt.columns) :
                    /\ last.stmt.columns[j] = last.ret.v[i][k][1]
                    /\ last.stmt.rows[i][j] = last.ret.v[i][k][2]

\* C20 witness: exec returned two different rows.
C20_Witness ==
    /\ last.op = "exec"
    /\ last.ret.kind = "rows"
    /\ Len(last.ret.v) >= 2
    /\ last.stmt.rows[1] # last.stmt.rows[2]
    /\ last.stmt.rows[1][1] > last.stmt.rows[2][1]

\* C21: whenever the fetch step returns normally, what it hands to the
\* pipeline is a sequence of row mappings, never the affected-row count, also
\* when reading the rows or the first commit failed inside exec().
C21_FetchReturnsRows ==
    /\ fetch.ended = "returned" => data.kind = "rows"
    /\ pc \in {"Fetched", "Rendering", "Delivering", "Done"} => data.kind = "rows"

\* C22: a connect() that returns false leaves the session and cursor fields
\* as they were before the call, both absent on a fresh manager; it never
\* leaves a new session stored without its cursor or next to the old cursor.
C22_FailedConnectKeepsFields ==
    /\ (last.op = "connect" /\ last.ret = RetBool(FALSE)) =>
          w.conn = last.pre.conn /\ w.cursor = last.pre.cursor
    /\ (last.op = "__init__" /\ ~CalledOk(last.calls, "conn.cursor")) =>
          w.conn = None /\ w.cursor = None
    /\ w.conn # None => w.cursor = w.conn

====
